---- MODULE Spec2Model ----
(***************************************************************************)
(* A model of the gateway request interceptor (request-interceptor.ts and  *)
(* the Lambda dispatcher that calls it).                                   *)
(*                                                                         *)
(* JavaScript strings are sequences of one-character strings, so that      *)
(* toLowerCase, startsWith and template concatenation are computed.        *)
(* JavaScript objects live in a heap (a sequence of objects, the address   *)
(* of an object being its index); an object is a function from property    *)
(* names to values, and a value is a tagged record: a primitive or a       *)
(* reference into the heap.  A call allocates what the code allocates and  *)
(* writes what the code writes.                                            *)
(***************************************************************************)
EXTENDS Integers, Sequences, FiniteSets, TLC

VARIABLES heap, input, log

vars == <<heap, input, log>>

---------------------------------------------------------------------------
(* Bounds of the model *)

\* the largest number of entries of the incoming header mapping
MaxHeaders == 2

\* the largest number of entries of an additional (override) header mapping
MaxAdditional == 1

\* the largest number of entries of the header mapping of a request of SpecSeq
MaxSeqHeaders == 1

\* the largest number of calls in one behaviour of SpecSeq
MaxCalls == 2

---------------------------------------------------------------------------
(* Strings *)

UpperCase == <<"A","B","C","D","E","F","G","H","I","J","K","L","M",
               "N","O","P","Q","R","S","T","U","V","W","X","Y","Z">>

LowerCase == <<"a","b","c","d","e","f","g","h","i","j","k","l","m",
               "n","o","p","q","r","s","t","u","v","w","x","y","z">>

\* String.prototype.toLowerCase, on one character and on a string
LowerChar(c) ==
  IF \E i \in 1..Len(UpperCase) : UpperCase[i] = c
  THEN LowerCase[CHOOSE i \in 1..Len(UpperCase) : UpperCase[i] = c]
  ELSE c

toLowerCase(s) == [i \in 1..Len(s) |-> LowerChar(s[i])]

\* String.prototype.startsWith
startsWith(s, p) == Len(s) >= Len(p) /\ SubSeq(s, 1, Len(p)) = p

\* the reserved prefix 'x-amzn' and the marker 'mcp_header_'
X_AMZN == <<"x","-","a","m","z","n">>

MCP_HEADER == <<"m","c","p","_","h","e","a","d","e","r","_">>

\* the property names the code reads and writes by name
kParams == <<"p","a","r","a","m","s">>

kArguments == <<"a","r","g","u","m","e","n","t","s">>

\* the name whose assignment reaches the setter of Object.prototype
kProto == <<"_","_","p","r","o","t","o","_","_">>

Digits == <<"0","1","2","3","4","5","6","7","8","9">>

\* the decimal name of an array-like index (String(i))
RECURSIVE IndexName(_)
IndexName(i) ==
  IF i < 10 THEN <<Digits[i + 1]>>
  ELSE Append(IndexName(i \div 10), Digits[(i % 10) + 1])

---------------------------------------------------------------------------
(* Values and the heap *)

Undefined == [t |-> "undefined"]

Null == [t |-> "null"]

Str(s) == [t |-> "str", s |-> s]

Num(n) == [t |-> "num", n |-> n]

Bool(b) == [t |-> "bool", b |-> b]

BigInt(n) == [t |-> "bigint", n |-> n]

Ref(a) == [t |-> "ref", a |-> a]

\* a nested object written out in full (a JSON document, an object literal)
Obj(o) == [t |-> "obj", o |-> o]

EmptyObj == [k \in {} |-> Undefined]

\* ToBoolean, as `||` applies it
Truthy(v) ==
  CASE v.t = "undefined" -> FALSE
    [] v.t = "null" -> FALSE
    [] v.t = "num" -> v.n # 0
    [] v.t = "bigint" -> v.n # 0
    [] v.t = "str" -> Len(v.s) > 0
    [] v.t = "bool" -> v.b
    [] OTHER -> TRUE

\* v[k] for a value v that is not null or undefined: an own property of an
\* object, undefined for a property a primitive does not have
Get(h, v, k) ==
  IF v.t = "ref" /\ k \in DOMAIN h[v.a] THEN h[v.a][k] ELSE Undefined

\* the own enumerable properties an object spread {...v} copies: those of an
\* object, the indexed characters of a string, none of any other value
OwnEntries(h, v) ==
  CASE v.t = "ref" -> h[v.a]
    [] v.t = "str" -> [k \in {IndexName(i - 1) : i \in 1..Len(v.s)} |->
                         Str(<<v.s[CHOOSE i \in 1..Len(v.s) : IndexName(i - 1) = k]>>)]
    [] OTHER -> EmptyObj

\* {...f, ...g}: the properties of f, then those of g on top
Overlay(f, g) ==
  [k \in DOMAIN f \cup DOMAIN g |-> IF k \in DOMAIN g THEN g[k] ELSE f[k]]

\* o[k] = v on an ordinary object whose prototype is Object.prototype: an own
\* data property, except for '__proto__', which calls the inherited setter
\* (no own property is made, and a string is no prototype)
SetProperty(o, k, v) ==
  IF k = kProto THEN o ELSE Overlay(o, k :> v)

\* a new object on the heap; its address is the new length
Alloc(h, o) == [heap |-> Append(h, o), ref |-> Ref(Len(h) + 1)]

\* the value v with every reference replaced by the object it points to
RECURSIVE Deep(_, _)
Deep(h, v) ==
  IF v.t = "ref"
  THEN Obj([k \in DOMAIN h[v.a] |-> Deep(h, h[v.a][k])])
  ELSE v

\* whether JSON.stringify throws on the value (a BigInt anywhere in it)
RECURSIVE HasBigInt(_)
HasBigInt(d) ==
  CASE d.t = "bigint" -> TRUE
    [] d.t = "obj" -> \E k \in DOMAIN d.o : HasBigInt(d.o[k])
    [] OTHER -> FALSE

---------------------------------------------------------------------------
(* request-interceptor.ts *)

\* for (const [key, value] of Object.entries(src)) dst[key] = value, over the
\* entries `keys` still to visit
RECURSIVE AssignEntries(_, _, _)
AssignEntries(dst, src, keys) ==
  IF keys = {} THEN dst
  ELSE LET key == CHOOSE k \in keys : TRUE
       IN AssignEntries(SetProperty(dst, key, src[key]), src, keys \ {key})

\* a faulty variant of propagateHeaders, which writes the additional headers
\* into the incoming mapping and returns that mapping
propagateHeadersInPlace(h, incomingHeaders, additionalHeaders) ==
  IF ~Truthy(incomingHeaders)
  THEN LET new == Alloc(h, IF Truthy(additionalHeaders)
                           THEN AssignEntries(EmptyObj, h[additionalHeaders.a],
                                              DOMAIN h[additionalHeaders.a])
                           ELSE EmptyObj)
       IN [heap |-> new.heap, ret |-> new.ref]
  ELSE [heap |-> [h EXCEPT ![incomingHeaders.a] =
                    IF Truthy(additionalHeaders)
                    THEN AssignEntries(@, h[additionalHeaders.a],
                                       DOMAIN h[additionalHeaders.a])
                    ELSE @],
        ret |-> incomingHeaders]

\* propagateHeaders(incomingHeaders, additionalHeaders) on heap h: the heap
\* after the call and the reference it returns
propagateHeaders(h, incomingHeaders, additionalHeaders) ==
  LET afterIncoming ==
        IF Truthy(incomingHeaders)
        THEN AssignEntries(EmptyObj, h[incomingHeaders.a], DOMAIN h[incomingHeaders.a])
        ELSE EmptyObj
      propagatedHeaders ==
        IF Truthy(additionalHeaders)
        THEN AssignEntries(afterIncoming, h[additionalHeaders.a],
                           DOMAIN h[additionalHeaders.a])
        ELSE afterIncoming
      new == Alloc(h, propagatedHeaders)
  IN [heap |-> new.heap, ret |-> new.ref]

\* a faulty variant of IsReserved, which compares without lowercasing
IsReservedCaseSensitive(key) == startsWith(key, X_AMZN)

\* key.toLowerCase().startsWith('x-amzn')
IsReserved(key) == startsWith(toLowerCase(key), X_AMZN)

\* a faulty variant of the loop of filterAndPrefixHeaders, which leaves a key
\* that already carries the marker as it is
RECURSIVE FilterEntriesOnce(_, _, _)
FilterEntriesOnce(result, headers, keys) ==
  IF keys = {} THEN result
  ELSE LET key == CHOOSE k \in keys : TRUE
           next == IF IsReservedCaseSensitive(toLowerCase(key)) THEN result
                   ELSE IF startsWith(key, MCP_HEADER)
                        THEN SetProperty(result, key, headers[key])
                        ELSE SetProperty(result, MCP_HEADER \o key, headers[key])
       IN FilterEntriesOnce(next, headers, keys \ {key})

\* the loop of filterAndPrefixHeaders over the entries `keys` still to visit
RECURSIVE FilterEntries(_, _, _)
FilterEntries(result, headers, keys) ==
  IF keys = {} THEN result
  ELSE LET key == CHOOSE k \in keys : TRUE
           next == IF IsReserved(key) THEN result
                   ELSE SetProperty(result, MCP_HEADER \o key, headers[key])
       IN FilterEntries(next, headers, keys \ {key})

\* filterAndPrefixHeaders(headers) on heap h
filterAndPrefixHeaders(h, headers) ==
  LET result ==
        IF ~Truthy(headers) THEN EmptyObj
        ELSE FilterEntries(EmptyObj, h[headers.a], DOMAIN h[headers.a])
      new == Alloc(h, result)
  IN [heap |-> new.heap, ret |-> new.ref]

\* a completed call: a returned value or a thrown error
Return(v) == [kind |-> "return", value |-> v]

Throw(e) == [kind |-> "throw", error |-> e]

\* whether the event or envelope has the nested fields the transform reads
HasShape(e) == "mcp" \in DOMAIN e

\* whether JSON.stringify(input) throws
StringifyThrows(h, e) ==
  /\ HasShape(e)
  /\ \/ HasBigInt(Deep(h, e.mcp.gatewayRequest.headers))
     \/ HasBigInt(Deep(h, e.mcp.gatewayRequest.body))

\* x || {} : x when truthy, else a new empty object
OrEmpty(h, x) ==
  IF Truthy(x) THEN [heap |-> h, ref |-> x] ELSE Alloc(h, EmptyObj)

\* a faulty variant of the arguments literal, with the spreads swapped
MergedArgumentsSwapped(existingArguments, prefixedHeaders) ==
  Overlay(prefixedHeaders, existingArguments)

\* the arguments object literal: { ...existingArguments, ...prefixedHeaders }
MergedArguments(existingArguments, prefixedHeaders) ==
  Overlay(existingArguments, prefixedHeaders)

\* the mergedBody literal, innermost object first: arguments, params, body
BodyLiteral(h, originalBody, params, arguments) ==
  LET mergedParams == Alloc(h, Overlay(OwnEntries(h, params), kArguments :> arguments))
  IN Alloc(mergedParams.heap,
           Overlay(OwnEntries(h, originalBody), kParams :> mergedParams.ref))

ArgumentsLiteral(h, originalBody, params, existingArguments, prefixedHeaders) ==
  LET arguments == Alloc(h, MergedArguments(OwnEntries(h, existingArguments),
                                            h[prefixedHeaders.a]))
  IN BodyLiteral(arguments.heap, originalBody, params, arguments.ref)

\* const existingArguments = params.arguments || {}, then the literal
WithArguments(h, originalBody, params, prefixedHeaders) ==
  LET existingArguments == OrEmpty(h, Get(h, params, kArguments))
  IN ArgumentsLiteral(existingArguments.heap, originalBody, params,
                      existingArguments.ref, prefixedHeaders)

\* const params = originalBody.params || {}, then the rest: the heap after and
\* the reference to mergedBody
MergeBody(h, originalBody, prefixedHeaders) ==
  LET params == OrEmpty(h, Get(h, originalBody, kParams))
  IN WithArguments(params.heap, originalBody, params.ref, prefixedHeaders)

\* createTransformedGatewayResponse(statusCode, body)
createTransformedGatewayResponse(statusCode, body) ==
  [statusCode |-> statusCode, body |-> body]

\* a faulty variant of the output literal, which short-circuits
OutputShortCircuit(headers, mergedBody) ==
  [interceptorOutputVersion |-> "1.0",
   mcp |-> [transformedGatewayRequest |-> [headers |-> headers, body |-> mergedBody],
            transformedGatewayResponse |->
              createTransformedGatewayResponse(200, mergedBody)]]

\* the output envelope literal
Output(headers, mergedBody) ==
  [interceptorOutputVersion |-> "1.0",
   mcp |-> [transformedGatewayRequest |-> [headers |-> headers, body |-> mergedBody]]]

\* the transform from the second helper call on, given the first one's result
AfterPropagate(headers, gatewayRequest) ==
  LET prefixedHeaders == filterAndPrefixHeaders(headers.heap, gatewayRequest.headers)
  IN [headers |-> headers.ret,
      merged |-> MergeBody(prefixedHeaders.heap, gatewayRequest.body,
                           prefixedHeaders.ret)]

\* handleInterceptorRequest(input) on heap h: the heap after the call and how
\* the call completed
handleInterceptorRequest(h, in) ==
  IF StringifyThrows(h, in) THEN [heap |-> h, res |-> Throw("TypeError")]
  ELSE IF ~HasShape(in) THEN [heap |-> h, res |-> Throw("TypeError")]
  ELSE
    LET built == AfterPropagate(
                   propagateHeaders(h, in.mcp.gatewayRequest.headers, Undefined),
                   in.mcp.gatewayRequest)
    IN [heap |-> built.merged.heap,
        res |-> Return(Output(built.headers, built.merged.ref))]

---------------------------------------------------------------------------
(* JSON text.  A text is held as the document it denotes (kind "json"), as *)
(* text that is no JSON (kind "invalid"), or as the empty string (kind     *)
(* "empty", which is no JSON either but is never parsed); parsing          *)
(* builds new objects on the heap and serializing reads them back.         *)

JsonText(doc) == [t |-> "text", kind |-> "json", doc |-> doc]

InvalidText == [t |-> "text", kind |-> "invalid"]

EmptyText == [t |-> "text", kind |-> "empty"]

\* the objects a nested value is made of, built on the heap children first
RECURSIVE AllocVal(_, _), AllocFields(_, _, _, _)
AllocVal(h, d) ==
  IF d.t = "obj"
  THEN LET fields == AllocFields(h, d.o, DOMAIN d.o, EmptyObj)
           new == Alloc(fields.heap, fields.obj)
       IN [heap |-> new.heap, val |-> new.ref]
  ELSE [heap |-> h, val |-> d]

AllocFields(h, o, keys, acc) ==
  IF keys = {} THEN [heap |-> h, obj |-> acc]
  ELSE LET k == CHOOSE x \in keys : TRUE
           v == AllocVal(h, o[k])
       IN AllocFields(v.heap, o, keys \ {k}, Overlay(acc, k :> v.val))

\* an envelope (input or output) with its header mapping and body written out
DeepInput(h, e) ==
  IF ~HasShape(e) THEN e
  ELSE [e EXCEPT !.mcp.gatewayRequest.headers = Deep(h, @),
                 !.mcp.gatewayRequest.body = Deep(h, @)]

DeepOutput(h, out) ==
  [out EXCEPT !.mcp.transformedGatewayRequest.headers = Deep(h, @),
              !.mcp.transformedGatewayRequest.body = Deep(h, @)]

\* JSON.parse of an envelope document: new objects for its mapping and body
ParseInput(h, doc) ==
  IF ~HasShape(doc) THEN [heap |-> h, val |-> doc]
  ELSE LET hd == AllocVal(h, doc.mcp.gatewayRequest.headers)
           bd == AllocVal(hd.heap, doc.mcp.gatewayRequest.body)
       IN [heap |-> bd.heap,
           val |-> [doc EXCEPT !.mcp.gatewayRequest.headers = hd.val,
                               !.mcp.gatewayRequest.body = bd.val]]

---------------------------------------------------------------------------
(* The dispatcher *)

\* a faulty variant of isInterceptorInput, which accepts either field alone
isInterceptorInputEither(event) ==
  "interceptorInputVersion" \in DOMAIN event \/ "mcp" \in DOMAIN event

\* isInterceptorInput(event), for an event that is an object
isInterceptorInput(event) ==
  "interceptorInputVersion" \in DOMAIN event /\ "mcp" \in DOMAIN event

\* event[k] === v
FieldIs(event, k, v) == k \in DOMAIN event /\ event[k] = v

\* event.body, undefined when the event has none
BodyOf(event) == IF "body" \in DOMAIN event THEN event.body ELSE Undefined

\* whether apiEvent.body is truthy (a non-empty string)
HasText(b) == b.t = "text" /\ b.kind # "empty"

Response(statusCode, body) ==
  [statusCode |-> statusCode,
   headers |-> ("Content-Type" :> "application/json"),
   body |-> body]

NotFoundDoc == [message |-> "Not Found"]

\* the /echo branch: the parsed body, serialized again
Echo(h, b) ==
  IF ~HasText(b) THEN [heap |-> h, res |-> Return(Response(200, JsonText(<<>>)))]
  ELSE IF b.kind = "invalid" THEN [heap |-> h, res |-> Throw("SyntaxError")]
  ELSE [heap |-> h, res |-> Return(Response(200, JsonText(b.doc)))]

\* the response around the transform's outcome: JSON.stringify(output)
Respond(output) ==
  IF output.res.kind = "throw" THEN output
  ELSE [heap |-> output.heap,
        res |-> Return(Response(200,
                  JsonText(DeepOutput(output.heap, output.res.value))))]

\* the transform on the parsed body
Delegate(parsed) == Respond(handleInterceptorRequest(parsed.heap, parsed.val))

\* the /intercept branch
Intercept(h, b) ==
  IF ~HasText(b) THEN Delegate([heap |-> h, val |-> <<>>])
  ELSE IF b.kind = "invalid" THEN [heap |-> h, res |-> Throw("SyntaxError")]
  ELSE Delegate(ParseInput(h, b.doc))

\* handler(event, context) on heap h: the heap after the call and how the
\* promise it returns settles
handler(h, event) ==
  IF StringifyThrows(h, event) THEN [heap |-> h, res |-> Throw("TypeError")]
  ELSE IF isInterceptorInput(event) THEN handleInterceptorRequest(h, event)
  ELSE IF FieldIs(event, "path", "/echo") /\ FieldIs(event, "httpMethod", "POST")
       THEN Echo(h, BodyOf(event))
  ELSE IF FieldIs(event, "path", "/intercept") /\ FieldIs(event, "httpMethod", "POST")
       THEN Intercept(h, BodyOf(event))
  ELSE [heap |-> h, res |-> Return(Response(404, JsonText(NotFoundDoc)))]

---------------------------------------------------------------------------
(* The requests the model is run on *)

\* header names: two that differ only in case and miss the reserved prefix by
\* one letter, one that has the reserved prefix in mixed case, and '__proto__'
nAmz == <<"x","-","a","m","z">>

nAMZ == <<"X","-","A","m","z">>

nTrace == <<"X","-","A","m","z","n","-","t">>

HeaderNames == {nAmz, nAMZ, nTrace, kProto}

HeaderValues == {Str(<<"v">>), Str(<<"w">>)}

\* the header mappings of at most n entries
HeaderMaps(n) ==
  UNION {[S -> HeaderValues] : S \in {T \in SUBSET HeaderNames : Cardinality(T) <= n}}

\* an optional header mapping of at most n entries
HeaderChoices(n) == {Undefined} \cup {Obj(m) : m \in HeaderMaps(n)}

kId == <<"i","d">>

kName == <<"n","a","m","e">>

kCity == <<"c","i","t","y">>

\* an object with the entries of f whose value is not undefined
Fields(f) == [k \in {x \in DOMAIN f : f[x] # Undefined} |-> f[k]]

\* params.arguments: absent, not an object, or an object that may already
\* hold an argument with the name of a header-derived one
ArgumentsChoices ==
  {Undefined, Null, Str(<<"s","t">>)}
    \cup {Obj(Fields((kCity :> c) @@ ((MCP_HEADER \o nAmz) :> a))) :
            c \in {Undefined, Num(3)}, a \in {Undefined, Str(<<"o","l","d">>)}}

\* body.params: absent, not an object, or an object
ParamsChoices ==
  {Undefined, Null, Str(<<>>), Str(<<"a","b">>), Num(0), Num(5), Bool(TRUE), BigInt(1)}
    \cup {Obj(Fields((kName :> n) @@ (kArguments :> a))) :
            n \in {Undefined, Str(<<"t">>)}, a \in ArgumentsChoices}

Bodies ==
  {Obj(Fields((kId :> i) @@ (kParams :> p))) :
     i \in {Undefined, Num(1)}, p \in ParamsChoices}

\* the input envelope around a header mapping and a body
Envelope(headers, body) ==
  [interceptorInputVersion |-> "1.0",
   mcp |-> [rawGatewayRequest |-> [body |-> "raw"],
            gatewayRequest |-> [path |-> "/mcp", httpMethod |-> "POST",
                                headers |-> headers, body |-> body]]]

\* the bodies an HTTP-proxy event may carry: none, the empty string, text that
\* is no JSON, the text '{}' and the envelope as JSON text
ProxyBodies(h, in) ==
  {Null, EmptyText, InvalidText, JsonText(<<>>), JsonText(DeepInput(h, in))}

\* the events the dispatcher is run on, each one a deserialized JSON document:
\* the envelope itself, the envelope without its version field, and
\* HTTP-proxy events
Events(h, in) ==
  IF StringifyThrows(h, in) THEN {}
  ELSE {in, [mcp |-> in.mcp]}
         \cup {[path |-> p, httpMethod |-> m, body |-> b] :
                 p \in {"/intercept", "/echo", "/other"}, m \in {"POST", "GET"},
                 b \in ProxyBodies(h, in)}

\* the requests and inputs of the runs of several calls
SeqBodies ==
  {Obj(kId :> Num(1)),
   Obj((kId :> Num(1)) @@ (kParams :> Str(<<"a","b">>))),
   Obj((kId :> Num(1)) @@
       (kParams :> Obj((kName :> Str(<<"t">>)) @@
                       (kArguments :> Obj((kCity :> Num(3)) @@
                          ((MCP_HEADER \o nAmz) :> Str(<<"o","l","d">>)))))))}

SeqAdditional == {Undefined, Obj(nAmz :> Str(<<"w">>))}

SeqEvents(h, in) ==
  {in,
   [path |-> "/intercept", httpMethod |-> "POST", body |-> JsonText(DeepInput(h, in))],
   [path |-> "/other", httpMethod |-> "GET", body |-> Null]}

---------------------------------------------------------------------------
(* The state machine: a request is built, then functions are called on it. *)
(* Each call is logged with its arguments and result as they were then.    *)

\* a log entry; `base` is the number of objects that existed before the call
Entry(op, args, before, base, res, after) ==
  [op |-> op, args |-> args, before |-> before, base |-> base,
   res |-> res, after |-> after]

\* the header mappings at hand: the request's and those returned so far
HeaderArgs ==
  {input.mcp.gatewayRequest.headers}
    \cup {log[i].res.value : i \in {j \in 1..Len(log) :
            log[j].op \in {"propagateHeaders", "filterAndPrefixHeaders"}}}

\* one invocation on any request
Init ==
  \E hd \in HeaderChoices(MaxHeaders), bd \in Bodies :
    LET doc == Envelope(hd, bd)
        built == ParseInput(<<>>, doc)
    IN /\ heap = built.heap
       /\ input = built.val
       /\ log = <<>>

\* several invocations on one request
InitSeq ==
  \E hd \in HeaderChoices(MaxSeqHeaders), bd \in SeqBodies :
    LET doc == Envelope(hd, bd)
        built == ParseInput(<<>>, doc)
    IN /\ heap = built.heap
       /\ input = built.val
       /\ log = <<>>

CallPropagateHeaders(incomingHeaders, add) ==
    LET arg == AllocVal(heap, add)
        call == propagateHeaders(arg.heap, incomingHeaders, arg.val)
    IN /\ heap' = call.heap
       /\ log' = Append(log,
            Entry("propagateHeaders", <<incomingHeaders, arg.val>>,
                  <<Deep(arg.heap, incomingHeaders), add>>, Len(arg.heap),
                  Return(call.ret), Deep(call.heap, call.ret)))
       /\ UNCHANGED input

CallFilterAndPrefixHeaders(headers) ==
    LET call == filterAndPrefixHeaders(heap, headers)
    IN /\ heap' = call.heap
       /\ log' = Append(log,
            Entry("filterAndPrefixHeaders", <<headers>>, <<Deep(heap, headers)>>,
                  Len(heap), Return(call.ret), Deep(call.heap, call.ret)))
       /\ UNCHANGED input

\* the outcome of a call with its references written out
DeepResult(h, res) ==
  IF res.kind = "throw" THEN res
  ELSE IF "interceptorOutputVersion" \in DOMAIN res.value
       THEN Return(DeepOutput(h, res.value))
       ELSE res

CallHandleInterceptorRequest ==
  LET call == handleInterceptorRequest(heap, input)
  IN /\ heap' = call.heap
     /\ log' = Append(log,
          Entry("handleInterceptorRequest", <<input>>, <<DeepInput(heap, input)>>,
                Len(heap), call.res, DeepResult(call.heap, call.res)))
     /\ UNCHANGED input

CallHandler(event) ==
    LET call == handler(heap, event)
    IN /\ heap' = call.heap
       /\ log' = Append(log,
            Entry("handler", <<event>>, <<DeepInput(heap, event)>>,
                  Len(heap), call.res, DeepResult(call.heap, call.res)))
       /\ UNCHANGED input

\* whether another call may be made in a run of at most n calls
Within(n) == Len(log) < n

Next ==
  \/ /\ Within(1)
     /\ \E incomingHeaders \in HeaderArgs, add \in HeaderChoices(MaxAdditional) :
          CallPropagateHeaders(incomingHeaders, add)
  \/ /\ Within(1)
     /\ \E headers \in HeaderArgs : CallFilterAndPrefixHeaders(headers)
  \/ /\ Within(1)
     /\ CallHandleInterceptorRequest
  \/ /\ Within(1)
     /\ \E event \in Events(heap, input) : CallHandler(event)

Spec == Init /\ [][Next]_vars

NextSeq ==
  \/ /\ Within(MaxCalls)
     /\ \E incomingHeaders \in HeaderArgs, add \in SeqAdditional :
          CallPropagateHeaders(incomingHeaders, add)
  \/ /\ Within(MaxCalls)
     /\ \E headers \in HeaderArgs : CallFilterAndPrefixHeaders(headers)
  \/ /\ Within(MaxCalls)
     /\ CallHandleInterceptorRequest
  \/ /\ Within(MaxCalls)
     /\ \E event \in SeqEvents(heap, input) : CallHandler(event)

SpecSeq == InitSeq /\ [][NextSeq]_vars

---------------------------------------------------------------------------
(* Properties.  They are stated on the log: what each call was given and   *)
(* what it gave back, with every mapping written out in full.              *)

\* the logged calls of one function
Calls(op) == {log[i] : i \in {j \in 1..Len(log) : log[j].op = op}}

\* a mapping written out in full, an absent one being empty
MapOf(d) == IF d.t = "obj" THEN d.o ELSE EmptyObj

IsObject(d) == d.t = "obj"

\* whether a header name starts with x-amzn, letter case aside
HasReservedPrefix(k) ==
  /\ Len(k) >= Len(X_AMZN)
  /\ \A i \in 1..Len(X_AMZN) : LowerChar(k[i]) = X_AMZN[i]

\* the headers as they are to appear among the arguments
Prefixed(H) ==
  [p \in {MCP_HEADER \o k : k \in {x \in DOMAIN H : ~HasReservedPrefix(x)}} |->
     H[SubSeq(p, Len(MCP_HEADER) + 1, Len(p))]]

\* the parts of a logged call of handleInterceptorRequest
HeadersIn(e) == MapOf(e.before[1].mcp.gatewayRequest.headers)

BodyIn(e) == e.before[1].mcp.gatewayRequest.body.o

HeadersOut(e) == e.after.value.mcp.transformedGatewayRequest.headers.o

BodyOut(e) == e.after.value.mcp.transformedGatewayRequest.body.o

Returned(e) == e.res.kind = "return"

\* whether the body has an object-valued params with an object-valued arguments
HasArguments(e) ==
  /\ kParams \in DOMAIN BodyIn(e)
  /\ IsObject(BodyIn(e)[kParams])
  /\ kArguments \in DOMAIN BodyIn(e)[kParams].o
  /\ IsObject(BodyIn(e)[kParams].o[kArguments])

\* C1: propagateHeaders(H1, H2) has exactly the keys of H1 and of H2 (absent
\* being empty), H2's value for every key of H2 and H1's value for every
\* other key of H1; names that differ in case are separate keys.
C1_PropagateIsUnion ==
  \A e \in Calls("propagateHeaders") :
    LET H1 == MapOf(e.before[1])
        H2 == MapOf(e.before[2])
        R == e.after.o
    IN /\ DOMAIN R = DOMAIN H1 \cup DOMAIN H2
       /\ \A k \in DOMAIN H2 : R[k] = H2[k]
       /\ \A k \in DOMAIN H1 \ DOMAIN H2 : R[k] = H1[k]

C3_BodyMerge ==
  \A e \in Calls("handleInterceptorRequest") :
    (Returned(e) /\ HasArguments(e)) =>
      LET B == BodyIn(e)
          P == B[kParams].o
          A == P[kArguments].o
          F == Prefixed(HeadersIn(e))
          outB == BodyOut(e)
          outP == outB[kParams].o
          outA == outP[kArguments].o
      IN /\ DOMAIN outB = DOMAIN B
         /\ \A k \in DOMAIN B \ {kParams} : outB[k] = B[k]
         /\ IsObject(outB[kParams])
         /\ DOMAIN outP = DOMAIN P
         /\ \A k \in DOMAIN P \ {kArguments} : outP[k] = P[k]
         /\ IsObject(outP[kArguments])
         /\ DOMAIN outA = DOMAIN A \cup DOMAIN F
         /\ \A k \in DOMAIN F : outA[k] = F[k]
         /\ \A k \in DOMAIN A \ DOMAIN F : outA[k] = A[k]

\* a header-derived entry replaced an argument of the same name, beside
\* sibling fields at every level
C3_Witness ==
  \E e \in Calls("handleInterceptorRequest") :
    /\ Returned(e) /\ HasArguments(e)
    /\ kId \in DOMAIN BodyIn(e)
    /\ {kName, kArguments} \subseteq DOMAIN BodyIn(e)[kParams].o
    /\ {kCity, MCP_HEADER \o nAmz} \subseteq DOMAIN BodyIn(e)[kParams].o[kArguments].o
    /\ nAmz \in DOMAIN HeadersIn(e)
    /\ BodyOut(e)[kParams].o[kArguments].o[MCP_HEADER \o nAmz] = HeadersIn(e)[nAmz]
    /\ BodyIn(e)[kParams].o[kArguments].o[MCP_HEADER \o nAmz] # HeadersIn(e)[nAmz]

\* C4: when params is absent or no object, or params.arguments is absent or
\* no object, the call returns and the output is as if that field were
\* absent: params holds the fields of an object-valued params and an
\* arguments object holding exactly the prefixed headers.  (Stated for the
\* inputs that can be serialized, so that a failure of logging is no part of
\* it.)
C4_NonObjectAsAbsent ==
  \A e \in Calls("handleInterceptorRequest") :
    (~HasArguments(e) /\ ~HasBigInt(e.before[1].mcp.gatewayRequest.body)) =>
      LET B == BodyIn(e)
          P == IF kParams \in DOMAIN B /\ IsObject(B[kParams])
               THEN B[kParams].o ELSE EmptyObj
          F == Prefixed(HeadersIn(e))
      IN /\ Returned(e)
         /\ DOMAIN BodyOut(e) = DOMAIN B \cup {kParams}
         /\ \A k \in DOMAIN B \ {kParams} : BodyOut(e)[k] = B[k]
         /\ IsObject(BodyOut(e)[kParams])
         /\ DOMAIN BodyOut(e)[kParams].o = DOMAIN P \cup {kArguments}
         /\ \A k \in DOMAIN P \ {kArguments} : BodyOut(e)[kParams].o[k] = P[k]
         /\ BodyOut(e)[kParams].o[kArguments] = Obj(F)

\* C5: the output forwards every incoming header unchanged, the reserved ones
\* included, and its arguments hold 'mcp_header_' + k with the header's value
\* for every header k without the reserved prefix and no key derived from a
\* header with it.
C5_ForwardAllInjectFiltered ==
  \A e \in Calls("handleInterceptorRequest") :
    Returned(e) =>
      LET H == HeadersIn(e)
          args == BodyOut(e)[kParams].o[kArguments].o
      IN /\ \A k \in DOMAIN H : k \in DOMAIN HeadersOut(e) /\ HeadersOut(e)[k] = H[k]
         /\ \A k \in DOMAIN H :
              IF HasReservedPrefix(k)
              THEN (MCP_HEADER \o k) \notin DOMAIN args /\ k \notin DOMAIN args
              ELSE (MCP_HEADER \o k) \in DOMAIN args /\ args[MCP_HEADER \o k] = H[k]

\* C6: on an envelope of the required shape the transform returns its output,
\* whether or not its input can be serialized for the log.
C6_LoggingNeverAborts ==
  \A e \in Calls("handleInterceptorRequest") :
    HasShape(e.before[1]) => Returned(e)

\* C7: a returned envelope has version "1.0", a transformed request made of
\* the forwarded headers and the merged body, and no transformed response.
C7_OutputEnvelope ==
  \A e \in Calls("handleInterceptorRequest") :
    Returned(e) =>
      LET out == e.after.value
      IN /\ DOMAIN out = {"interceptorOutputVersion", "mcp"}
         /\ out.interceptorOutputVersion = "1.0"
         /\ DOMAIN out.mcp = {"transformedGatewayRequest"}
         /\ DOMAIN out.mcp.transformedGatewayRequest = {"headers", "body"}
         /\ IsObject(out.mcp.transformedGatewayRequest.headers)
         /\ \A k \in DOMAIN HeadersOut(e) :
              k \in DOMAIN HeadersIn(e) /\ HeadersOut(e)[k] = HeadersIn(e)[k]
         /\ IsObject(out.mcp.transformedGatewayRequest.body)
         /\ DOMAIN BodyOut(e) = DOMAIN BodyIn(e) \cup {kParams}

\* an envelope with forwarded headers was returned
C7_Witness ==
  \E e \in Calls("handleInterceptorRequest") :
    /\ Returned(e)
    /\ {nAmz, nTrace} \subseteq DOMAIN HeadersOut(e)
    /\ kId \in DOMAIN BodyOut(e)

\* what the transform gives for an envelope written out in full
Transformed(d) ==
  LET built == ParseInput(<<>>, d)
  IN LET call == handleInterceptorRequest(built.heap, built.val)
     IN DeepResult(call.heap, call.res)

IsRoute(ev, path, method) == FieldIs(ev, "path", path) /\ FieldIs(ev, "httpMethod", method)

\* C8: an event with both interceptorInputVersion and mcp gets the transform's
\* output envelope as it is; of the others, a POST to /intercept whose body is
\* the JSON text of an envelope gets status 200, a JSON content type and the
\* serialized output, and a path and method that are no endpoint get 404.
C8_Dispatch ==
  \A e \in Calls("handler") :
    LET ev == e.before[1]
        direct == {"interceptorInputVersion", "mcp"} \subseteq DOMAIN ev
    IN /\ direct =>
            /\ e.after = Transformed(ev)
            /\ Returned(e) => "interceptorOutputVersion" \in DOMAIN e.after.value
       /\ (/\ ~direct
           /\ IsRoute(ev, "/intercept", "POST")
           /\ ev.body.t = "text" /\ ev.body.kind = "json" /\ HasShape(ev.body.doc)) =>
            /\ Returned(e)
            /\ DOMAIN e.after.value = {"statusCode", "headers", "body"}
            /\ e.after.value.statusCode = 200
            /\ e.after.value.headers = ("Content-Type" :> "application/json")
            /\ e.after.value.body = JsonText(Transformed(ev.body.doc).value)
       /\ (/\ ~direct
           /\ ~IsRoute(ev, "/intercept", "POST")
           /\ ~IsRoute(ev, "/echo", "POST")) =>
            /\ Returned(e)
            /\ "statusCode" \in DOMAIN e.after.value
            /\ e.after.value.statusCode = 404

\* a POST to /intercept carried an envelope with headers as JSON text and was
\* answered with the serialized output
C8_Witness ==
  \E e \in Calls("handler") :
    /\ IsRoute(e.before[1], "/intercept", "POST")
    /\ e.before[1].body.t = "text" /\ e.before[1].body.kind = "json"
    /\ HasShape(e.before[1].body.doc)
    /\ nAmz \in DOMAIN MapOf(e.before[1].body.doc.mcp.gatewayRequest.headers)
    /\ Returned(e)
    /\ e.after.value.statusCode = 200
    /\ e.after.value.body.doc.interceptorOutputVersion = "1.0"

\* the pairs of calls of filterAndPrefixHeaders of which the later was given
\* a mapping equal to what the earlier returned for a mapping with a header
\* that is kept
Reapplied ==
  {p \in (1..Len(log)) \X (1..Len(log)) :
     /\ p[1] < p[2]
     /\ log[p[1]].op = "filterAndPrefixHeaders"
     /\ log[p[2]].op = "filterAndPrefixHeaders"
     /\ log[p[2]].before[1] = log[p[1]].after
     /\ \E k \in DOMAIN MapOf(log[p[1]].before[1]) : ~HasReservedPrefix(k)}

\* C9: filterAndPrefixHeaders applied to its own result, for a mapping with a
\* key that is kept, gives a different mapping: nothing is dropped and every
\* key gets the marker once more, with its value.
C9_PrefixCompounds ==
  \A p \in Reapplied :
    LET once == log[p[1]].after.o
        twice == log[p[2]].after.o
    IN /\ twice # once
       /\ DOMAIN twice = {MCP_HEADER \o k : k \in DOMAIN once}
       /\ \A k \in DOMAIN once : twice[MCP_HEADER \o k] = once[k]
       /\ \A k \in DOMAIN MapOf(log[p[1]].before[1]) :
            ~HasReservedPrefix(k) =>
              (MCP_HEADER \o MCP_HEADER \o k) \in DOMAIN twice

\* the function was applied to its own result
C9_Witness ==
  \E p \in Reapplied : nAmz \in DOMAIN MapOf(log[p[1]].before[1])

\* the arguments of a logged call as they are now
ArgumentsNow(e) ==
  IF e.op \in {"propagateHeaders", "filterAndPrefixHeaders"}
  THEN [i \in 1..Len(e.args) |-> Deep(heap, e.args[i])]
  ELSE <<DeepInput(heap, e.args[1])>>

\* whether the mappings a call returned were made by the call
FreshResult(e) ==
  IF e.op \in {"propagateHeaders", "filterAndPrefixHeaders"}
  THEN e.res.value.a > e.base
  ELSE (Returned(e) /\ "interceptorOutputVersion" \in DOMAIN e.res.value) =>
         /\ e.res.value.mcp.transformedGatewayRequest.headers.a > e.base
         /\ e.res.value.mcp.transformedGatewayRequest.body.a > e.base

\* C10: after any calls, every argument of every call holds what it held when
\* it was passed, every returned mapping is an object the call made, and two
\* calls of one function on equal arguments gave equal results.
C10_ArgumentsUnchanged ==
  /\ \A i \in 1..Len(log) :
       /\ ArgumentsNow(log[i]) = log[i].before
       /\ FreshResult(log[i])
  /\ \A i, j \in 1..Len(log) :
       (log[i].op = log[j].op /\ log[i].before = log[j].before) =>
         log[i].after = log[j].after

\* headers were overridden in a call of propagateHeaders, and the transform
\* then forwarded the incoming header with its own value
C10_Witness ==
  /\ Len(log) >= 2
  /\ log[1].op = "propagateHeaders"
  /\ nAmz \in DOMAIN MapOf(log[1].before[1])
  /\ nAmz \in DOMAIN MapOf(log[1].before[2])
  /\ log[1].before[1].o[nAmz] # log[1].before[2].o[nAmz]
  /\ log[2].op = "handleInterceptorRequest"
  /\ Returned(log[2])
  /\ HeadersOut(log[2])[nAmz] = log[1].before[1].o[nAmz]

====
